---- MODULE Spec2Model ----
(***************************************************************************)
(* Clustering pipeline of AgenticBrowser: the cluster endpoint             *)
(* (app/api/cluster/route.ts), the pipeline stages                         *)
(* (app/api/tools/cluster_tool.ts, second copy of the module, lines        *)
(* 461-1102), the data-access layer (app/db/index.ts) and the cluster      *)
(* goals endpoint (app/api/cluster-goals/route.ts).                        *)
(*                                                                         *)
(* Eight specifications share this module:                                 *)
(*   Spec        concurrent requests to POST /api/cluster over one store   *)
(*   SeqSpec     the same requests, served one after the other             *)
(*   LiveSpec    one request, with fairness of the steps the code drives   *)
(*   ReplaySpec  one body posted three times, the third after the others   *)
(*   DedupSpec   deduplicateUrlData applied to bounded inputs              *)
(*   ClusterSpec createClusters stepped over bounded inputs                *)
(*   SummarySpec analyzeClusters applied to bounded inputs                 *)
(*   GoalsSpec   requests to POST /api/cluster-goals, one after the other  *)
(***************************************************************************)
EXTENDS Integers, Sequences, FiniteSets, TLC

(***************************************************************************)
(* Bounds                                                                  *)
(***************************************************************************)
\* longest input handed to deduplicateUrlData in DedupSpec
MaxDedupLen == 4
\* largest number of points handed to createClusters in ClusterSpec
MaxPoints == 5
\* longest input handed to analyzeClusters in SummarySpec
MaxSummaryLen == 3
\* most clusters in one request to the cluster-goals endpoint
MaxGoalClusters == 2
\* most requests to the cluster-goals endpoint in one behaviour
MaxGoalRequests == 3
\* most failures the environment injects in one behaviour: a store
\* operation that throws, a backend call that fails or answers without text
MaxFaults == 1

(***************************************************************************)
(* Small helpers                                                           *)
(***************************************************************************)
SeqsUpTo(S, n) == UNION { [1..k -> S] : k \in 0..n }

Range(s) == { s[i] : i \in DOMAIN s }

\* Array.prototype.filter with a predicate on the element
RECURSIVE SelectIdx(_, _, _)
SelectIdx(s, keep, i) ==
    IF i > Len(s) THEN << >>
    ELSE IF i \in keep THEN << s[i] >> \o SelectIdx(s, keep, i + 1)
         ELSE SelectIdx(s, keep, i + 1)

(***************************************************************************)
(* Deduplicator: deduplicateUrlData (cluster_tool.ts 731-741)              *)
(***************************************************************************)
\* the filter callback run over positions i..Len(arr) with the Set `seen'
RECURSIVE dedupFilter(_, _, _)
dedupFilter(arr, i, seen) ==
    IF i > Len(arr) THEN << >>
    ELSE IF arr[i].url \in seen
         THEN dedupFilter(arr, i + 1, seen)
         ELSE << arr[i] >> \o dedupFilter(arr, i + 1, seen \cup { arr[i].url })

\* a deduplicator that lets a later occurrence replace the earlier one
RECURSIVE dedupKeepLast(_)
dedupKeepLast(arr) ==
    IF arr = << >> THEN << >>
    ELSE LET n == Len(arr)
             front == SubSeq(arr, 1, n - 1)
             last == arr[n]
             keep == { i \in 1..(n - 1) : front[i].url # last.url }
         IN  dedupKeepLast(SelectIdx(front, keep, 1)) \o << last >>

deduplicateUrlData(arr) == dedupFilter(arr, 1, {})

(***************************************************************************)
(* Density clusterer: createClusters (cluster_tool.ts 743-831)             *)
(*                                                                         *)
(* Embeddings are integer vectors; one model unit is 0.25, so the          *)
(* epsilon of 0.75 that clusterUrls passes is 3 units.  Math.sqrt is       *)
(* monotone, so `distance <= epsilon' is decided on the squares.           *)
(***************************************************************************)
\* sum of Math.pow(vec1[i] - vec2[i], 2) over the loop of euclideanDistance
RECURSIVE sumSquares(_, _, _)
sumSquares(vec1, vec2, i) ==
    IF i > Len(vec1) THEN 0
    ELSE (vec1[i] - vec2[i]) * (vec1[i] - vec2[i]) + sumSquares(vec1, vec2, i + 1)

\* euclideanDistance throws when the lengths differ
distanceThrows(vec1, vec2) == Len(vec1) # Len(vec2)

\* square of the value euclideanDistance returns
euclideanDistanceSq(vec1, vec2) == sumSquares(vec1, vec2, 1)

\* a comparison that leaves the boundary out
withinEpsilonStrict(vec1, vec2, epsilon) ==
    euclideanDistanceSq(vec1, vec2) < epsilon * epsilon

\* distance <= epsilon
withinEpsilon(vec1, vec2, epsilon) ==
    euclideanDistanceSq(vec1, vec2) <= epsilon * epsilon

\* findNeighbors throws when any distance it computes throws
findNeighborsThrows(embs, pointIndex) ==
    \E i \in 1..Len(embs) : i # pointIndex /\ distanceThrows(embs[pointIndex], embs[i])

\* a neighbour query that forgets `i !== pointIndex'
findNeighborsWithSelf(embs, pointIndex, epsilon) ==
    SelectIdx([i \in 1..Len(embs) |-> i],
              { i \in 1..Len(embs) : withinEpsilon(embs[pointIndex], embs[i], epsilon) },
              1)

\* findNeighbors: indices i # pointIndex within epsilon, in increasing order
findNeighbors(embs, pointIndex, epsilon) ==
    SelectIdx([i \in 1..Len(embs) |-> i],
              { i \in 1..Len(embs) :
                    i # pointIndex /\ withinEpsilon(embs[pointIndex], embs[i], epsilon) },
              1)

\* a pass that numbers its clusters from 1
clustersStartFromOne(embs, epsilon, minPoints) ==
    [ embs |-> embs, epsilon |-> epsilon, minPoints |-> minPoints,
      visited |-> [i \in 1..Len(embs) |-> FALSE],
      cluster |-> [i \in 1..Len(embs) |-> -1],
      currentCluster |-> 1,
      i |-> 1, phase |-> "main",
      seed |-> 0, neighbors |-> << >>, k |-> 0,
      seeds |-> << >>,
      reachedBy |-> [i \in 1..Len(embs) |-> -1],
      noised |-> {},
      queries |-> [i \in 1..Len(embs) |-> 0], steps |-> 0 ]

\* state of createClusters just after clusteredData is built (lines 750-757)
\* seeds, reachedBy and noised record the history of the pass: the point
\* each cluster was started from, the first cluster whose `neighbors' list
\* held a point (-1: none), and the points the main loop marked as noise;
\* queries counts the calls of findNeighbors per point and steps the loop
\* iterations taken so far
clustersStart(embs, epsilon, minPoints) ==
    [ embs |-> embs, epsilon |-> epsilon, minPoints |-> minPoints,
      visited |-> [i \in 1..Len(embs) |-> FALSE],
      cluster |-> [i \in 1..Len(embs) |-> -1],
      currentCluster |-> 0,
      i |-> 1, phase |-> "main",
      seed |-> 0, neighbors |-> << >>, k |-> 0,
      seeds |-> << >>,
      reachedBy |-> [i \in 1..Len(embs) |-> -1],
      noised |-> {},
      queries |-> [i \in 1..Len(embs) |-> 0], steps |-> 0 ]

\* the points of `list' enter the neighbors list of the expansion of `cluster'
markReached(reachedBy, list, cluster) ==
    [ i \in DOMAIN reachedBy |->
        IF reachedBy[i] = -1 /\ i \in Range(list) THEN cluster ELSE reachedBy[i] ]

\* one iteration of the main loop (lines 801-815), up to the call of expandCluster
mainStep(s) ==
    IF s.i > Len(s.embs) THEN [s EXCEPT !.phase = "done", !.steps = s.steps + 1]
    ELSE IF s.visited[s.i] THEN [s EXCEPT !.i = s.i + 1, !.steps = s.steps + 1]
    ELSE IF findNeighborsThrows(s.embs, s.i)
         THEN [s EXCEPT !.visited[s.i] = TRUE, !.phase = "error",
                        !.queries[s.i] = s.queries[s.i] + 1, !.steps = s.steps + 1]
    ELSE LET neighbors == findNeighbors(s.embs, s.i, s.epsilon)
         IN  IF Len(neighbors) < s.minPoints
             THEN [s EXCEPT !.visited[s.i] = TRUE, !.cluster[s.i] = -1, !.i = s.i + 1,
                            !.noised = s.noised \cup { s.i },
                            !.queries[s.i] = s.queries[s.i] + 1,
                            !.steps = s.steps + 1]
             ELSE \* expandCluster(i, neighbors, currentCluster), line 778
                  [s EXCEPT !.visited[s.i] = TRUE,
                            !.cluster[s.i] = s.currentCluster,
                            !.phase = "expand", !.seed = s.i,
                            !.neighbors = neighbors, !.k = 1,
                            !.seeds = Append(s.seeds, s.i),
                            !.reachedBy = markReached(s.reachedBy, neighbors,
                                                      s.currentCluster),
                            !.queries[s.i] = s.queries[s.i] + 1,
                            !.steps = s.steps + 1]

\* a recruiter that never extends the list
recruitsNone(s, nn) == << >>

\* line 789: the neighbours of a core point that join the list
recruits(s, nn) ==
    SelectIdx(nn, { j \in 1..Len(nn) : nn[j] \notin Range(s.neighbors) /\ nn[j] # s.seed }, 1)

\* an assignment that overwrites the cluster a point already has
absorbAlways(s, neighborIndex) == s.currentCluster

\* lines 794-796: a point joins the current cluster only when it has none
absorb(s, neighborIndex) ==
    IF s.cluster[neighborIndex] = -1 THEN s.currentCluster ELSE s.cluster[neighborIndex]

\* a test that takes every neighbour for unvisited
unvisitedAlways(s, neighborIndex) == TRUE

\* line 783: !visited[neighborIndex]
unvisited(s, neighborIndex) == ~ s.visited[neighborIndex]

\* one iteration of the loop of expandCluster (lines 780-797); when the loop
\* is over, currentCluster++ and the main loop goes on (line 813)
expandStep(s) ==
    IF s.k > Len(s.neighbors)
    THEN [s EXCEPT !.phase = "main", !.currentCluster = s.currentCluster + 1,
                   !.i = s.i + 1, !.neighbors = << >>, !.k = 0, !.seed = 0,
                   !.steps = s.steps + 1]
    ELSE LET neighborIndex == s.neighbors[s.k]
             fresh == unvisited(s, neighborIndex)
         IN  IF fresh /\ findNeighborsThrows(s.embs, neighborIndex)
             THEN [s EXCEPT !.visited[neighborIndex] = TRUE, !.phase = "error",
                            !.queries[neighborIndex] = s.queries[neighborIndex] + 1,
                            !.steps = s.steps + 1]
             ELSE LET nn == IF fresh THEN findNeighbors(s.embs, neighborIndex, s.epsilon)
                                     ELSE << >>
                      add == IF fresh /\ Len(nn) >= s.minPoints
                             THEN recruits(s, nn)
                             ELSE << >>
                  IN  [s EXCEPT !.visited[neighborIndex] = TRUE,
                                !.neighbors = s.neighbors \o add,
                                !.cluster[neighborIndex] = absorb(s, neighborIndex),
                                !.reachedBy = markReached(s.reachedBy, add,
                                                          s.currentCluster),
                                !.queries[neighborIndex] =
                                    s.queries[neighborIndex] + (IF fresh THEN 1 ELSE 0),
                                !.k = s.k + 1,
                                !.steps = s.steps + 1]

clustersStep(s) ==
    IF s.phase = "main" THEN mainStep(s)
    ELSE IF s.phase = "expand" THEN expandStep(s)
    ELSE s

RECURSIVE clustersRun(_)
clustersRun(s) ==
    IF s.phase \in {"done", "error"} THEN s ELSE clustersRun(clustersStep(s))

\* a clusterer that refuses an empty array
createClustersRejectsEmpty(embs, epsilon, minPoints) ==
    IF embs = << >>
    THEN [clustersStart(embs, epsilon, minPoints) EXCEPT !.phase = "error"]
    ELSE clustersRun(clustersStart(embs, epsilon, minPoints))

\* createClusters as a function: the final state of the pass
createClusters(embs, epsilon, minPoints) ==
    clustersRun(clustersStart(embs, epsilon, minPoints))

(***************************************************************************)
(* Requests to POST /api/cluster (route.ts 17-25)                          *)
(***************************************************************************)
Urls == {"a", "b", "c"}

\* an element of the `urls' array of the body: a string, or an object
\* {url, title}; title "" stands for an object without title
StrEntry(u) == [kind |-> "string", url |-> u, title |-> ""]
ObjEntry(u, t) == [kind |-> "object", url |-> u, title |-> t]

\* the `urls' arrays the modelled clients send
UrlLists ==
    { << >>,
      << StrEntry("a"), StrEntry("b"), StrEntry("c") >>,
      << ObjEntry("a", "A") >>,
      << ObjEntry("b", "") >> }

\* defaults of the destructuring at route.ts 19-24
DefaultMaxItems == 50

\* what fetchChromeHistory finds in the browser (most recent first)
ChromeHistory ==
    << [url |-> "c", title |-> "C"], [url |-> "c", title |-> "C"] >>

Requests ==
    { [fetchHistory |-> FALSE, maxItems |-> DefaultMaxItems, urls |-> l, baseUrl |-> ""] :
        l \in UrlLists }
    \cup { [fetchHistory |-> TRUE, maxItems |-> DefaultMaxItems, urls |-> << >>,
             baseUrl |-> ""] }

(***************************************************************************)
(* generateInputHash (db/index.ts 10-14)                                   *)
(*                                                                         *)
(* JSON.stringify(input, Object.keys(input).sort()): the array given as    *)
(* replacer is a property allow-list that applies to every object of the   *)
(* value, nested ones included.  sha256 is taken as injective, so the      *)
(* hash is modelled by the normalized text, kept as a structured value.    *)
(***************************************************************************)
InputKeys == {"baseUrl", "fetchHistory", "maxItems", "urls"}

\* the properties an url object owns: title only when it was given
ownKeys(e) == IF e.title = "" THEN {"url"} ELSE {"url", "title"}

\* serialization of one element of `urls' under the allow-list
stringifyEntry(e, allow) ==
    IF e.kind = "string" THEN << "string", e.url >>
    ELSE << "object", { << k, e[k] >> : k \in ownKeys(e) \cap allow } >>

\* the replacer of generateInputHash
replacerKeys == InputKeys

generateInputHash(input) ==
    [ k \in InputKeys |->
        IF k = "urls"
        THEN [ i \in 1..Len(input.urls) |-> stringifyEntry(input.urls[i], replacerKeys) ]
        ELSE input[k] ]

(***************************************************************************)
(* State                                                                   *)
(***************************************************************************)
VARIABLES
    urlHistory,     \* table url_history: url -> row, or NoRow
    clustersTable,  \* table Clusters: rows in insertion order
    run,            \* per request: position in POST and its local variables
    lastWrite,      \* the latest write issued to url_history and its outcome
    faults,         \* failures injected so far
    dd,             \* DedupSpec: input and output of deduplicateUrlData
    cl,             \* ClusterSpec: the running state of createClusters
    az,             \* SummarySpec: input and output of analyzeClusters
    gl              \* GoalsSpec: table ClusterGoals and the request in progress

vars == << urlHistory, clustersTable, run, lastWrite, faults, dd, cl, az, gl >>

\* the requests served, numbered by arrival
Runs == {1, 2}

NoRow == [absent |-> TRUE]
NoWrite == [op |-> "none"]
NoResponse == [status |-> 0]

(***************************************************************************)
(* External collaborators                                                  *)
(***************************************************************************)
\* texts the text-generation backend may return for a page; "" is the
\* `|| ""' of cluster_tool.ts 567 (a response without content)
GeneratedTexts == {"", "d1", "d2"}

\* texts the backend may return for the page at `url': the answer for a
\* page may change from one call to the next
textsFor(url) == IF url = "a" THEN GeneratedTexts ELSE {"d1"}

\* the outcomes of a call that count as injected failures
inject(n) ==
    /\ faults + n <= MaxFaults
    /\ faults' = faults + n

\* the embedding backend: a function of the text (spec section 1)
embed(text) == IF text = "d1" THEN << 0, 0, 0 >> ELSE << 2, 2, 2 >>

\* an embedding of another dimensionality than the ones embed returns
OddVector == << 1 >>

\* epsilon and minPoints of the call at cluster_tool.ts 972, in model units
PipelineEpsilon == 3
PipelineMinPoints == 2

\* rows fetchChromeHistory(maxItems) returns: the query has LIMIT maxItems
RECURSIVE firstRows(_, _)
firstRows(rows, n) ==
    IF n <= 0 \/ rows = << >> THEN << >>
    ELSE << Head(rows) >> \o firstRows(Tail(rows), n - 1)

\* an error while reading the browser's file is answered with [] (128-134)
fetchChromeHistory(maxItems, readFails) ==
    IF readFails THEN << >> ELSE firstRows(ChromeHistory, maxItems)

\* processHistoryForClustering (history_tool.ts 142-147); titles of the
\* modelled history are never empty
processHistoryForClustering(historyItems) ==
    [ i \in 1..Len(historyItems) |->
        [url |-> historyItems[i].url, title |-> historyItems[i].title] ]

(***************************************************************************)
(* Data-access layer (db/index.ts)                                         *)
(***************************************************************************)
\* db.clusters.findByInputHash: rows[0] of the SELECT; the table is only
\* ever appended to, so rows come back in insertion order
RECURSIVE firstWithHash(_, _)
firstWithHash(rows, inputHash) ==
    IF rows = << >> THEN NoRow
    ELSE IF Head(rows).inputHash = inputHash THEN Head(rows)
         ELSE firstWithHash(Tail(rows), inputHash)

\* a lookup whose WHERE clause never matches
findByInputHashNever(inputHash) == NoRow

\* a lookup without WHERE clause
findByInputHashAny(inputHash) ==
    IF clustersTable = << >> THEN NoRow ELSE Head(clustersTable)

findByInputHash(inputHash) == firstWithHash(clustersTable, inputHash)

\* db.urlHistory.create: a plain INSERT; url is the primary key
\* (db/types.ts 35), so the statement fails when the url has a row
createConflicts(table, data) == table[data.url] # NoRow

urlHistoryRow(data) ==
    [ title |-> data.title,
      descriptive_representation |-> data.descriptive_representation,
      embedding |-> data.embedding ]

\* a statement that reports success and stores nothing
putNothing(table, data) == table

\* effect of one successful INSERT / INSERT ... ON CONFLICT DO UPDATE
putRow(table, data) == [table EXCEPT ![data.url] = urlHistoryRow(data)]

\* an upsert that, on conflict, updates the embedding and nothing else
RECURSIVE batchCreateEmbeddingOnly(_, _)
batchCreateEmbeddingOnly(table, dataArray) ==
    IF dataArray = << >> THEN table
    ELSE LET data == Head(dataArray)
             next == IF createConflicts(table, data)
                     THEN [table EXCEPT ![data.url].embedding = data.embedding]
                     ELSE putRow(table, data)
         IN  batchCreateEmbeddingOnly(next, Tail(dataArray))

\* db.urlHistory.batchCreate: the upserts of one transaction, in order
RECURSIVE batchCreate(_, _)
batchCreate(table, dataArray) ==
    IF dataArray = << >> THEN table
    ELSE batchCreate(putRow(table, Head(dataArray)), Tail(dataArray))

(***************************************************************************)
(* POST /api/cluster (route.ts 17-114) and clusterUrls                     *)
(* (cluster_tool.ts 936-989).  A step of a request ends at an await that   *)
(* touches the store or calls a backend.                                   *)
(***************************************************************************)
\* a map without entries
NoneSeen == [u \in {} |-> << >>]

\* besides the locals of POST and of the stages, a request records what
\* its stages saw and did:
\*   seenDesc     url -> description found by the lookup of the Description stage
\*   textFor      urls a text generation was requested for
\*   textFailed   urls whose text generation failed
\*   wrote        urls whose db.urlHistory.create succeeded
\*   seenEmb      url -> embedding found by the lookup of the Embedding stage
\*   emptyEmbRow  urls whose row had an empty embedding at that lookup
\*   gotEmb       url -> embedding the backend returned
\*   embFailed    urls whose embeddings call failed
\*   dims         lengths of the embeddings handed to createClusters
\*   nEmbedded    number of items createEmbeddings returned
IdleRun ==
    [ pc |-> "idle", req |-> [none |-> TRUE], after |-> {},
      items |-> << >>, enhanced |-> << >>, queue |-> << >>,
      embedded |-> << >>, batch |-> << >>,
      clustered |-> << >>, analysis |-> << >>,
      stages |-> << >>, textCalls |-> 0, embedCalls |-> 0,
      resp |-> NoResponse,
      seenDesc |-> NoneSeen, textFor |-> {}, textFailed |-> {}, wrote |-> {},
      seenEmb |-> NoneSeen, emptyEmbRow |-> {}, gotEmb |-> NoneSeen,
      embFailed |-> {}, dims |-> {}, nEmbedded |-> 0 ]

inputHashOf(r) == generateInputHash(run[r].req)

\* the catch of POST (route.ts 107-113); clusterUrls only rethrows
\* the locals of a request die with it
finished(st, resp) ==
    [ IdleRun EXCEPT !.pc = "done", !.req = st.req, !.after = st.after,
                     !.stages = st.stages, !.textCalls = st.textCalls,
                     !.embedCalls = st.embedCalls, !.resp = resp,
                     !.dims = st.dims ]

failed500(st) == finished(st, [status |-> 500])

\* a local that is never read again
dropped == << >>

\* route.ts 67-75: urls of the body as {url, title}
urlsToCluster(urls) ==
    [ i \in 1..Len(urls) |->
        IF urls[i].kind = "string"
        THEN [url |-> urls[i].url, title |-> urls[i].url]
        ELSE [url |-> urls[i].url,
              title |-> IF urls[i].title # "" THEN urls[i].title ELSE urls[i].url] ]

\* cluster_tool.ts 946-953: preProcessedUrls as UrlData
rawUrlData(pre) ==
    [ i \in 1..Len(pre) |->
        [url |-> pre[i].url, title |-> pre[i].title, content |-> "", description |-> ""] ]

\* the stage order a run records
appendStage(st, name) == [st EXCEPT !.stages = Append(st.stages, name)]

\* POST up to the first await of generateDescriptiveRepresentations:
\* hash, result-cache lookup, input resolution, deduplication
Receive(r, q, dbFails, readFails) ==
    /\ run[r].pc = "idle"
    /\ \A o \in Runs : o < r => run[o].pc # "idle"   \* numbered by arrival
    /\ readFails =>
           q.fetchHistory /\ ~ dbFails /\ findByInputHash(generateInputHash(q)) = NoRow
    /\ inject(IF dbFails \/ readFails THEN 1 ELSE 0)
    /\ LET st0 == [run[r] EXCEPT !.req = q,
                                 !.after = { o \in Runs : run[o].pc = "done" }]
           cachedResult == findByInputHash(generateInputHash(q))
           pre == IF q.fetchHistory
                  THEN processHistoryForClustering(
                           fetchChromeHistory(q.maxItems, readFails))
                  ELSE urlsToCluster(q.urls)
       IN  run' = [run EXCEPT ![r] =
               IF dbFails THEN failed500(st0)
               ELSE IF cachedResult # NoRow
               THEN finished(st0, [status |-> 200,
                                   clusters |-> cachedResult.clusterResult,
                                   cached |-> TRUE,
                                   storedFor |-> cachedResult.storedFor])
               ELSE IF ~ q.fetchHistory /\ Len(q.urls) = 0
               THEN finished(st0, [status |-> 400])
               ELSE [appendStage(st0, "Deduplicator") EXCEPT
                        !.pc = "descLookup",
                        !.items = deduplicateUrlData(rawUrlData(pre))]]
    /\ UNCHANGED << urlHistory, clustersTable, lastWrite, dd, cl, az, gl >>

(***************************************************************************)
(* generateDescriptiveRepresentations (cluster_tool.ts 491-593)            *)
(***************************************************************************)
hasCachedDescription(table, urlData) ==
    /\ table[urlData.url] # NoRow
    /\ table[urlData.url].descriptive_representation # ""

\* first loop (512-536): what is pushed to enhancedUrlData, in input order
RECURSIVE descFirstLoopOut(_, _)
descFirstLoopOut(table, arr) ==
    IF arr = << >> THEN << >>
    ELSE LET urlData == Head(arr)
             rest == descFirstLoopOut(table, Tail(arr))
         IN  IF hasCachedDescription(table, urlData)
             THEN << [urlData EXCEPT !.description =
                         table[urlData.url].descriptive_representation] >> \o rest
             ELSE IF urlData.content = "" /\ urlData.title = ""
             THEN << urlData >> \o rest
             ELSE rest

\* a first loop that ignores the cache
descFirstLoopTodoAll(table, arr) == arr

\* first loop (512-536): urlsToProcess
RECURSIVE descFirstLoopTodo(_, _)
descFirstLoopTodo(table, arr) ==
    IF arr = << >> THEN << >>
    ELSE LET urlData == Head(arr)
             rest == descFirstLoopTodo(table, Tail(arr))
         IN  IF hasCachedDescription(table, urlData) THEN rest
             ELSE IF urlData.content = "" /\ urlData.title = "" THEN rest
             ELSE << urlData >> \o rest

\* the descriptions existingEntriesMap holds for the urls of arr (508-517)
cachedDescriptions(table, arr) ==
    [ u \in { arr[i].url : i \in { j \in 1..Len(arr) :
                                       /\ table[arr[j].url] # NoRow
                                       /\ table[arr[j].url].descriptive_representation # "" } }
        |-> table[u].descriptive_representation ]

\* batchFindByUrls and the first loop
DescLookup(r, dbFails) ==
    /\ run[r].pc = "descLookup"
    /\ LET st == appendStage(run[r], "Description")
           todo == descFirstLoopTodo(urlHistory, st.items)
       IN  run' = [run EXCEPT ![r] =
               IF dbFails THEN failed500(st)
               ELSE [st EXCEPT !.enhanced = descFirstLoopOut(urlHistory, st.items),
                               !.queue = todo,
                               !.seenDesc = cachedDescriptions(urlHistory, st.items),
                               !.pc = IF todo = << >> THEN "embLookup" ELSE "descGen"]]
    /\ UNCHANGED << urlHistory, clustersTable, lastWrite, dd, cl, az, gl >>
    /\ inject(IF dbFails THEN 1 ELSE 0)

\* a catch that gives the item up
descCatchDrop(enhanced, urlData) == enhanced

\* the catch of the second loop (584-588)
descCatch(enhanced, urlData) == Append(enhanced, urlData)

\* one iteration of the second loop (541-589): the chat completion, the push
\* and db.urlHistory.create; text = "fail" stands for a failed backend call
DescGen(r, text, dbFails) ==
    /\ run[r].pc = "descGen"
    /\ text \in textsFor(Head(run[r].queue).url) \cup {"fail"}
    /\ LET st == run[r]
           urlData == Head(st.queue)
           data == [url |-> urlData.url, title |-> urlData.title,
                    descriptive_representation |-> text, embedding |-> << >>]
           pushed == Append(st.enhanced, [urlData EXCEPT !.description = text])
           throws == dbFails \/ createConflicts(urlHistory, data)
           next == IF Tail(st.queue) = << >> THEN "embLookup" ELSE "descGen"
       IN  IF text = "fail"
           THEN /\ run' = [run EXCEPT ![r] =
                      [st EXCEPT !.enhanced = descCatch(st.enhanced, urlData),
                                 !.queue = Tail(st.queue),
                                 !.textCalls = st.textCalls + 1,
                                 !.textFor = st.textFor \cup { urlData.url },
                                 !.textFailed = st.textFailed \cup { urlData.url },
                                 !.pc = next]]
                /\ dbFails = FALSE
                /\ inject(1)
                /\ UNCHANGED << urlHistory, lastWrite >>
           ELSE /\ run' = [run EXCEPT ![r] =
                      [st EXCEPT !.enhanced = IF throws THEN descCatch(pushed, urlData)
                                              ELSE pushed,
                                 !.queue = Tail(st.queue),
                                 !.textCalls = st.textCalls + 1,
                                 !.textFor = st.textFor \cup { urlData.url },
                                 !.wrote = IF throws THEN st.wrote
                                           ELSE st.wrote \cup { urlData.url },
                                 !.pc = next]]
                /\ urlHistory' = IF throws THEN urlHistory ELSE putRow(urlHistory, data)
                /\ lastWrite' = [op |-> "create", data |-> << data >>,
                                 existed |-> urlHistory[data.url] # NoRow,
                                 dbFails |-> dbFails, ok |-> ~ throws]
                /\ inject((IF text = "" THEN 1 ELSE 0) + (IF dbFails THEN 1 ELSE 0))
    /\ UNCHANGED << clustersTable, dd, cl, az, gl >>

(***************************************************************************)
(* createEmbeddings (cluster_tool.ts 601-698)                              *)
(***************************************************************************)
hasCachedEmbedding(table, urlData) ==
    /\ table[urlData.url] # NoRow
    /\ Len(table[urlData.url].embedding) > 0

withEmbedding(urlData, embedding) ==
    [ url |-> urlData.url, title |-> urlData.title, content |-> urlData.content,
      description |-> urlData.description, embedding |-> embedding ]

\* first loop (621-644): what is pushed to embeddingDataArray
RECURSIVE embFirstLoopOut(_, _)
embFirstLoopOut(table, arr) ==
    IF arr = << >> THEN << >>
    ELSE LET urlData == Head(arr)
             rest == embFirstLoopOut(table, Tail(arr))
         IN  IF urlData.description = "" THEN rest
             ELSE IF hasCachedEmbedding(table, urlData)
             THEN << withEmbedding(urlData, table[urlData.url].embedding) >> \o rest
             ELSE rest

\* a first loop without the skip of items that have no description
RECURSIVE embFirstLoopTodoKeepEmpty(_, _)
embFirstLoopTodoKeepEmpty(table, arr) ==
    IF arr = << >> THEN << >>
    ELSE LET urlData == Head(arr)
             rest == embFirstLoopTodoKeepEmpty(table, Tail(arr))
         IN  IF urlData.description # "" /\ hasCachedEmbedding(table, urlData) THEN rest
             ELSE << urlData >> \o rest

\* first loop (621-644): urlsToProcess
RECURSIVE embFirstLoopTodo(_, _)
embFirstLoopTodo(table, arr) ==
    IF arr = << >> THEN << >>
    ELSE LET urlData == Head(arr)
             rest == embFirstLoopTodo(table, Tail(arr))
         IN  IF urlData.description = "" THEN rest
             ELSE IF hasCachedEmbedding(table, urlData) THEN rest
             ELSE << urlData >> \o rest

\* the embeddings existingEntriesMap holds for the described items of arr
cachedEmbeddings(table, arr) ==
    [ u \in { arr[i].url : i \in { j \in 1..Len(arr) :
                                       /\ arr[j].description # ""
                                       /\ table[arr[j].url] # NoRow
                                       /\ table[arr[j].url].embedding # << >> } }
        |-> table[u].embedding ]

\* urls of the described items of arr whose row has an empty embedding
rowsWithoutEmbedding(table, arr) ==
    { arr[i].url : i \in { j \in 1..Len(arr) :
                              /\ arr[j].description # ""
                              /\ table[arr[j].url] # NoRow
                              /\ table[arr[j].url].embedding = << >> } }

\* batchFindByUrls and the first loop
EmbLookup(r, dbFails) ==
    /\ run[r].pc = "embLookup"
    /\ LET st == appendStage(run[r], "Embedding")
           todo == embFirstLoopTodo(urlHistory, st.enhanced)
       IN  run' = [run EXCEPT ![r] =
               IF dbFails THEN failed500(st)
               ELSE [st EXCEPT !.embedded = embFirstLoopOut(urlHistory, st.enhanced),
                               !.items = dropped, !.enhanced = dropped,
                               !.queue = todo,
                               !.seenDesc = NoneSeen, !.textFor = {},
                               !.textFailed = {}, !.wrote = {},
                               !.seenEmb = cachedEmbeddings(urlHistory, st.enhanced),
                               !.emptyEmbRow = rowsWithoutEmbedding(urlHistory, st.enhanced),
                               !.pc = IF todo = << >> THEN "cluster" ELSE "embGen"]]
    /\ UNCHANGED << urlHistory, clustersTable, lastWrite, dd, cl, az, gl >>
    /\ inject(IF dbFails THEN 1 ELSE 0)

\* what the embeddings call answers for position i of urlsToProcess; `odd'
\* holds the positions answered with a vector of another dimensionality
embeddingAnswer(todo, odd, i) ==
    IF i \in odd THEN OddVector ELSE embed(todo[i].description)

\* a second loop that emits a vector of zeros for a failed call
embSecondLoopOutZeros(todo, failing, odd) ==
    [ i \in 1..Len(todo) |->
        withEmbedding(todo[i], IF i \in failing THEN << 0, 0, 0 >>
                               ELSE embeddingAnswer(todo, odd, i)) ]

\* the second loop (651-684): the items whose embeddings call succeeded;
\* `failing' holds the positions of urlsToProcess whose call fails
embSecondLoopOut(todo, failing, odd) ==
    SelectIdx([ i \in 1..Len(todo) |-> withEmbedding(todo[i], embeddingAnswer(todo, odd, i)) ],
              (1..Len(todo)) \ failing, 1)

\* batchUpdateData after the second loop
embBatch(produced) ==
    [ i \in 1..Len(produced) |->
        [ url |-> produced[i].url, title |-> produced[i].title,
          descriptive_representation |-> produced[i].description,
          embedding |-> produced[i].embedding ] ]

\* the second loop: one embeddings call per item of urlsToProcess; the
\* calls touch nothing but the locals of the request
EmbGen(r, failing, odd) ==
    /\ run[r].pc = "embGen"
    /\ failing \subseteq 1..Len(run[r].queue)
    /\ odd \subseteq (1..Len(run[r].queue)) \ failing
    /\ inject(Cardinality(failing) + Cardinality(odd))
    /\ LET st == run[r]
           produced == embSecondLoopOut(st.queue, failing, odd)
       IN  run' = [run EXCEPT ![r] =
               [st EXCEPT !.embedded = st.embedded \o produced,
                          !.batch = embBatch(produced),
                          !.queue = << >>,
                          !.embedCalls = st.embedCalls + Len(st.queue),
                          !.gotEmb = [ u \in { produced[i].url : i \in 1..Len(produced) } |->
                                         LET i == CHOOSE j \in 1..Len(produced) :
                                                      produced[j].url = u
                                         IN  produced[i].embedding ],
                          !.embFailed = { st.queue[i].url : i \in failing },
                          !.pc = IF produced # << >> THEN "embStore" ELSE "cluster"]]
    /\ UNCHANGED << urlHistory, clustersTable, lastWrite, dd, cl, az, gl >>

\* a stage that gives up its items when the batch write fails
afterBatchWriteLosing(st, dbFails) ==
    [st EXCEPT !.pc = "cluster",
               !.embedded = IF dbFails THEN << >> ELSE st.embedded]

\* the locals of createEmbeddings after the try/catch of 687-694: the
\* catch only logs
afterBatchWrite(st, dbFails) == [st EXCEPT !.pc = "cluster"]

\* the batch write (686-694); a failure is logged only
EmbStore(r, dbFails) ==
    /\ run[r].pc = "embStore"
    /\ run' = [run EXCEPT ![r] = afterBatchWrite(run[r], dbFails)]
    /\ urlHistory' = IF dbFails THEN urlHistory
                     ELSE batchCreate(urlHistory, run[r].batch)
    /\ lastWrite' = [op |-> "batchCreate", data |-> run[r].batch,
                     existed |-> \E i \in 1..Len(run[r].batch) :
                                     urlHistory[run[r].batch[i].url] # NoRow,
                     dbFails |-> dbFails, ok |-> ~ dbFails]
    /\ inject(IF dbFails THEN 1 ELSE 0)
    /\ UNCHANGED << clustersTable, dd, cl, az, gl >>

(***************************************************************************)
(* createClusters call (972) and analyzeClusters (839-926)                 *)
(***************************************************************************)
\* keys of clusterGroups in Object.entries order: the non-negative integer
\* keys ascending, then "-1" (not an array index, so it comes last)
RECURSIVE ascending(_, _, _)
ascending(ids, from, to) ==
    IF from > to THEN << >>
    ELSE IF from \in ids THEN << from >> \o ascending(ids, from + 1, to)
         ELSE ascending(ids, from + 1, to)

\* an enumeration that leaves the noise group out
entriesOrderNoNoise(ids, n) == ascending(ids, 0, n)

entriesOrder(ids, n) ==
    ascending(ids, 0, n) \o (IF -1 \in ids THEN << -1 >> ELSE << >>)

membersOf(clustered, id) ==
    SelectIdx(clustered, { i \in 1..Len(clustered) : clustered[i].cluster = id }, 1)

urlsOf(members) == [ i \in 1..Len(members) |-> members[i].url ]

\* `Cluster ${clusterId}`
fallbackName(id) == << "Cluster 0", "Cluster 1", "Cluster 2", "Cluster 3" >>[id + 1]

\* the three shapes of a ClusterSummary (863-868, 905-910, 915-920)
summaryOf(id, members, outcome) ==
    [ id |-> id,
      name |-> IF id = -1 THEN "Noise"
               ELSE IF outcome = "labelled" THEN "Topic"
               ELSE fallbackName(id),
      description |-> IF id = -1 THEN "Points that do not belong to any cluster"
                      ELSE IF outcome = "labelled" THEN "About the topic"
                      ELSE IF outcome = "unlabelled" THEN "raw analysis text"
                      ELSE "Error analyzing this cluster",
      urls |-> urlsOf(members),
      count |-> Len(members) ]

\* an analysis that gives every cluster the fallback once a completion fails
analyzeClustersAllOrNothing(clustered, groups, outcome) ==
    [ g \in 1..Len(groups) |->
        summaryOf(groups[g], membersOf(clustered, groups[g]),
                  IF groups[g] = -1 THEN "none"
                  ELSE IF \E id \in DOMAIN outcome : outcome[id] = "fail" THEN "fail"
                  ELSE outcome[groups[g]]) ]

\* analyzeClusters: one summary per group, in the order of the groups;
\* outcome[id] is what the chat completion for cluster id does
analyzeClusters(clustered, groups, outcome) ==
    [ g \in 1..Len(groups) |->
        summaryOf(groups[g], membersOf(clustered, groups[g]),
                  IF groups[g] = -1 THEN "none" ELSE outcome[groups[g]]) ]

SummaryOutcomes == {"labelled", "unlabelled", "fail"}

\* an orchestrator that goes on with what the clusterer had assigned
clustererNeverFailed(res) == FALSE

\* createClusters threw: clusterUrls rethrows (985-988)
clustererFailed(res) == res.phase = "error"

\* createClusters(embeddingDataArray, 0.75), up to the first await of
\* analyzeClusters; it touches nothing but the locals of the request
Cluster(r) ==
    /\ run[r].pc = "cluster"
    /\ LET st == run[r]
           embs == [ i \in 1..Len(st.embedded) |-> st.embedded[i].embedding ]
           res == createClusters(embs, PipelineEpsilon, PipelineMinPoints)
           seen == [appendStage(st, "Clusterer") EXCEPT
                       !.dims = { Len(embs[i]) : i \in 1..Len(embs) },
                       !.seenEmb = NoneSeen, !.emptyEmbRow = {},
                       !.gotEmb = NoneSeen, !.embFailed = {}]
       IN  run' = [run EXCEPT ![r] =
               IF clustererFailed(res) THEN failed500(seen)
               ELSE [seen EXCEPT
                        !.clustered = [ i \in 1..Len(st.embedded) |->
                                          [ url |-> st.embedded[i].url,
                                            description |-> st.embedded[i].description,
                                            cluster |-> res.cluster[i] ] ],
                        !.embedded = dropped, !.batch = dropped,
                        !.nEmbedded = Len(st.embedded),
                        !.pc = "analyze"]]
    /\ UNCHANGED << urlHistory, clustersTable, lastWrite, faults, dd, cl, az, gl >>

clusterIdsOf(clustered) == { clustered[i].cluster : i \in 1..Len(clustered) }

\* analyzeClusters: the grouping and the loop over the groups, one chat
\* completion per cluster; local to the request
Analyze(r, outcome) ==
    /\ run[r].pc = "analyze"
    /\ LET st == run[r]
           ids == clusterIdsOf(st.clustered)
           groups == entriesOrder(ids, Len(st.clustered))
       IN  /\ DOMAIN outcome = ids \ {-1}
           /\ run' = [run EXCEPT ![r] =
                  [appendStage(st, "Summarizer") EXCEPT
                      !.analysis = analyzeClusters(st.clustered, groups, outcome),
                      !.clustered = dropped,
                      !.textCalls = st.textCalls + Cardinality(ids \ {-1}),
                      !.pc = "store"]]
           /\ inject(Cardinality({ id \in DOMAIN outcome : outcome[id] = "fail" }))
    /\ UNCHANGED << urlHistory, clustersTable, lastWrite, dd, cl, az, gl >>

(***************************************************************************)
(* POST, after clusterUrls returned (route.ts 86-106)                      *)
(***************************************************************************)
\* Object.entries(clusterAnalysis) without "-1", each with status = name;
\* the analysis was filled in entriesOrder, which is also its key order
resultClusters(analysis) ==
    LET kept == SelectIdx(analysis, { i \in 1..Len(analysis) : analysis[i].id # -1 }, 1)
    IN  [ i \in 1..Len(kept) |->
            [ name |-> kept[i].name, description |-> kept[i].description,
              urls |-> kept[i].urls, count |-> kept[i].count,
              status |-> kept[i].name ] ]

\* db.clusters.create and the response
StoreResult(r, dbFails) ==
    /\ run[r].pc = "store"
    /\ LET st == run[r]
           clusters == resultClusters(st.analysis)
       IN  /\ run' = [run EXCEPT ![r] =
                  IF dbFails THEN failed500(st)
                  ELSE finished(st, [status |-> 200, clusters |-> clusters,
                                     cached |-> FALSE, storedFor |-> st.req])]
           /\ clustersTable' =
                  IF dbFails THEN clustersTable
                  ELSE Append(clustersTable,
                              [inputHash |-> generateInputHash(st.req),
                               clusterResult |-> clusters,
                               storedFor |-> st.req, storedBy |-> r])
    /\ inject(IF dbFails THEN 1 ELSE 0)
    /\ UNCHANGED << urlHistory, lastWrite, dd, cl, az, gl >>

(***************************************************************************)
(* Specifications of the endpoint                                          *)
(***************************************************************************)
IdleDedup == [input |-> << >>, output |-> << >>, done |-> TRUE]
IdleClusters == [phase |-> "off"]
IdleSummary ==
    [input |-> << >>, output |-> << >>, calls |-> 0, outcome |-> << >>, done |-> TRUE]
\* cluster-goals endpoint: empty table ClusterGoals, no request yet
IdleGoals ==
    [ table |-> << >>, pc |-> "idle", req |-> [none |-> TRUE], k |-> 0,
      goalsPerCluster |-> << >>, resp |-> NoResponse, requests |-> 0 ]

PipelineInit ==
    /\ urlHistory = [u \in Urls |-> NoRow]
    /\ clustersTable = << >>
    /\ run = [r \in Runs |-> IdleRun]
    /\ lastWrite = NoWrite
    /\ faults = 0
    /\ dd = IdleDedup
    /\ cl = IdleClusters
    /\ az = IdleSummary
    /\ gl = IdleGoals

TextOutcomes == GeneratedTexts \cup {"fail"}
\* the clusters a pipeline run can form are numbered from 0
ClusterIds == 0..1

Step(r) ==
    \/ \E q \in Requests, f, h \in BOOLEAN : Receive(r, q, f, h)
    \/ \E f \in BOOLEAN : DescLookup(r, f)
    \/ \E t \in TextOutcomes, f \in BOOLEAN : DescGen(r, t, f)
    \/ \E f \in BOOLEAN : EmbLookup(r, f)
    \/ \E failing, odd \in SUBSET (1..Cardinality(Urls)) : EmbGen(r, failing, odd)
    \/ \E f \in BOOLEAN : EmbStore(r, f)
    \/ Cluster(r)
    \/ \E ids \in SUBSET ClusterIds : \E outcome \in [ids -> SummaryOutcomes] :
           Analyze(r, outcome)
    \/ \E f \in BOOLEAN : StoreResult(r, f)

Next == \E r \in Runs : Step(r)

Spec == PipelineInit /\ [][Next]_vars

\* requests served strictly one after the other
quiet(r) == \A o \in Runs \ {r} : run[o].pc \in {"idle", "done"}

SeqNext == \E r \in Runs : quiet(r) /\ Step(r)

SeqSpec == PipelineInit /\ [][SeqNext]_vars

\* a step of request r when the bodies that arrive are drawn from reqs
StepOf(r, reqs) ==
    \/ \E q \in reqs, f, h \in BOOLEAN : Receive(r, q, f, h)
    \/ \E f \in BOOLEAN : DescLookup(r, f)
    \/ \E t \in TextOutcomes, f \in BOOLEAN : DescGen(r, t, f)
    \/ \E f \in BOOLEAN : EmbLookup(r, f)
    \/ \E failing, odd \in SUBSET (1..Cardinality(Urls)) : EmbGen(r, failing, odd)
    \/ \E f \in BOOLEAN : EmbStore(r, f)
    \/ Cluster(r)
    \/ \E ids \in SUBSET ClusterIds : \E outcome \in [ids -> SummaryOutcomes] :
           Analyze(r, outcome)
    \/ \E f \in BOOLEAN : StoreResult(r, f)

\* the requests of at most one url
LiveRequests == { q \in Requests : Len(q.urls) <= 1 }

\* one request followed to its end.  The steps that wait for the store or
\* compute locally are taken once they can be; the steps that wait for a
\* chat completion (550-564, 879-897) or for an embedding (654-657) are
\* taken when the backend answers, which nothing in the code brings about:
\* the calls are awaited as they are, with no timeout and no abort signal
LiveNext == StepOf(1, LiveRequests)

\* the steps of the request that wait for the store or compute locally
StoreOrLocalStep ==
    \/ \E f \in BOOLEAN : DescLookup(1, f)
    \/ \E f \in BOOLEAN : EmbLookup(1, f)
    \/ \E f \in BOOLEAN : EmbStore(1, f)
    \/ Cluster(1)
    \/ \E f \in BOOLEAN : StoreResult(1, f)

LiveSpec == PipelineInit /\ [][LiveNext]_vars /\ WF_vars(StoreOrLocalStep)

\* the same body posted three times: the first two requests run
\* concurrently, the third arrives once both have been answered
Replays == Runs \cup {3}

ReplayRequests == { q \in Requests : Len(q.urls) = 3 }

ReplayInit ==
    /\ urlHistory = [u \in Urls |-> NoRow]
    /\ clustersTable = << >>
    /\ run = [r \in Replays |-> IdleRun]
    /\ lastWrite = NoWrite
    /\ faults = 0
    /\ dd = IdleDedup
    /\ cl = IdleClusters
    /\ az = IdleSummary
    /\ gl = IdleGoals

ReplayNext ==
    \/ \E r \in Runs : StepOf(r, ReplayRequests)
    \/ (\A r \in Runs : run[r].pc = "done") /\ StepOf(3, ReplayRequests)

ReplaySpec == ReplayInit /\ [][ReplayNext]_vars

(***************************************************************************)
(* DedupSpec: deduplicateUrlData on bounded inputs                         *)
(***************************************************************************)
DedupItems ==
    { [url |-> u, title |-> t, content |-> "", description |-> ""] :
        u \in {"a", "b"}, t \in {"t1", "t2"} }

DedupInit ==
    /\ urlHistory = [u \in Urls |-> NoRow]
    /\ clustersTable = << >>
    /\ run = [r \in Runs |-> IdleRun]
    /\ lastWrite = NoWrite
    /\ faults = 0
    /\ cl = IdleClusters
    /\ az = IdleSummary
    /\ gl = IdleGoals
    /\ \E arr \in SeqsUpTo(DedupItems, MaxDedupLen) :
           dd = [input |-> arr, output |-> << >>, done |-> FALSE]

Deduplicate ==
    /\ ~ dd.done
    /\ dd' = [dd EXCEPT !.output = deduplicateUrlData(dd.input), !.done = TRUE]
    /\ UNCHANGED << urlHistory, clustersTable, run, lastWrite, faults, cl, az, gl >>

DedupSpec == DedupInit /\ [][Deduplicate]_vars

(***************************************************************************)
(* ClusterSpec: createClusters stepped on bounded inputs                   *)
(***************************************************************************)
\* candidate embeddings: two far points, three points within 3 units of
\* both and far from each other, and one vector of another dimension
ClusterVectors ==
    { << 0, 0, 0 >>, << 2, 2, 2 >>, << 0, 0, 1 >>, << 0, 3, 0 >>, << 3, 0, 0 >>, << 0 >> }

\* three pages with near-identical embeddings and two pages far from
\* everything, in every input order
ScenarioVectors ==
    { << 0, 0, 0 >>, << 0, 0, 1 >>, << 0, 1, 0 >>, << 50, 0, 0 >>, << 0, 50, 0 >> }

ScenarioOrders ==
    { embs \in [1..Cardinality(ScenarioVectors) -> ScenarioVectors] :
        \A i, j \in DOMAIN embs : i # j => embs[i] # embs[j] }

\* << epsilon, minPoints >>; 3 units and 2 are what clusterUrls passes
ClusterParams == { << 3, 1 >>, << 3, 2 >>, << 3, 3 >>, << 1, 2 >> }

ClusterInit ==
    /\ urlHistory = [u \in Urls |-> NoRow]
    /\ clustersTable = << >>
    /\ run = [r \in Runs |-> IdleRun]
    /\ lastWrite = NoWrite
    /\ faults = 0
    /\ dd = IdleDedup
    /\ az = IdleSummary
    /\ gl = IdleGoals
    /\ \E embs \in SeqsUpTo(ClusterVectors, MaxPoints) \cup ScenarioOrders,
          p \in ClusterParams :
           cl = clustersStart(embs, p[1], p[2])

\* an iteration of the main loop
ClusterMain ==
    /\ cl.phase = "main"
    /\ cl' = mainStep(cl)
    /\ UNCHANGED << urlHistory, clustersTable, run, lastWrite, faults, dd, az, gl >>

\* an iteration of the loop of expandCluster
ClusterExpand ==
    /\ cl.phase = "expand"
    /\ cl' = expandStep(cl)
    /\ UNCHANGED << urlHistory, clustersTable, run, lastWrite, faults, dd, az, gl >>

ClusterNext == ClusterMain \/ ClusterExpand

ClusterSpec == ClusterInit /\ [][ClusterNext]_vars

(***************************************************************************)
(* SummarySpec: analyzeClusters on bounded inputs                          *)
(***************************************************************************)
\* candidate items of clusteredData
SummaryItems ==
    { [url |-> u, description |-> "d1", cluster |-> c] :
        u \in Urls, c \in {-1} \cup ClusterIds }

SummaryInit ==
    /\ urlHistory = [u \in Urls |-> NoRow]
    /\ clustersTable = << >>
    /\ run = [r \in Runs |-> IdleRun]
    /\ lastWrite = NoWrite
    /\ faults = 0
    /\ dd = IdleDedup
    /\ cl = IdleClusters
    /\ gl = IdleGoals
    /\ \E arr \in SeqsUpTo(SummaryItems, MaxSummaryLen) :
           az = [input |-> arr, output |-> << >>, calls |-> 0, outcome |-> << >>,
                 done |-> FALSE]

\* analyzeClusters; outcome[id] is what the chat completion for cluster id
\* does, and one completion is requested per cluster other than -1
Summarize(outcome) ==
    /\ ~ az.done
    /\ LET ids == clusterIdsOf(az.input)
           groups == entriesOrder(ids, Len(az.input))
       IN  /\ DOMAIN outcome = ids \ {-1}
           /\ az' = [az EXCEPT !.output = analyzeClusters(az.input, groups, outcome),
                               !.calls = Cardinality(ids \ {-1}),
                               !.outcome = outcome,
                               !.done = TRUE]
    /\ UNCHANGED << urlHistory, clustersTable, run, lastWrite, faults, dd, cl, gl >>

SummaryNext ==
    \E ids \in SUBSET ClusterIds : \E outcome \in [ids -> SummaryOutcomes] :
        Summarize(outcome)

SummarySpec == SummaryInit /\ [][SummaryNext]_vars

(***************************************************************************)
(* POST /api/cluster-goals (app/api/cluster-goals/route.ts 115-177) over   *)
(* db.clusterGoals (app/db/index.ts 43-69); requests are served one after  *)
(* the other                                                               *)
(***************************************************************************)
GoalClusterIds == {"k1", "k2"}

\* bodies: `clusters' may be missing, `clusterGoals' may be empty
GoalRequests ==
    { [hasClusters |-> TRUE, clusters |-> c, clusterGoals |-> g] :
        c \in SeqsUpTo(GoalClusterIds, MaxGoalClusters), g \in {"", "plan"} }
    \cup { [hasClusters |-> FALSE, clusters |-> << >>, clusterGoals |-> "plan"] }

\* the goals of the catch of generateGoalsForCluster (75)
FailedGoals == << "Error generating goals for this cluster" >>

\* generateGoalsForCluster (19-79); outcome is what the chat completion
\* does: "listed" (list items found), "plain" (first line used), "fail"
generateGoalsForCluster(clusterId, outcome) ==
    IF outcome = "fail"
    THEN [id |-> clusterId, goals |-> FailedGoals, status |-> "Failed"]
    ELSE [id |-> clusterId,
          goals |-> IF outcome = "listed" THEN << "goal 1", "goal 2" >>
                    ELSE << "first line" >>,
          status |-> "Complete"]

GoalOutcomes == {"listed", "plain", "fail"}

\* db.clusterGoals.findByClusterId: result.rows[0]
findByClusterId(table, clusterId) ==
    IF \E i \in 1..Len(table) : table[i].clusterId = clusterId
    THEN table[CHOOSE i \in 1..Len(table) :
                   /\ table[i].clusterId = clusterId
                   /\ \A j \in 1..(i - 1) : table[j].clusterId # clusterId]
    ELSE NoRow

\* the body arrives: validation (121-133)
GoalsReceive(q) ==
    /\ gl.pc \in {"idle", "done"}
    /\ gl.requests < MaxGoalRequests
    /\ gl' = IF ~ q.hasClusters \/ q.clusterGoals = ""
             THEN [gl EXCEPT !.pc = "done", !.req = q, !.k = 0,
                             !.goalsPerCluster = << >>,
                             !.resp = [status |-> 400],
                             !.requests = gl.requests + 1]
             ELSE [gl EXCEPT !.pc = "lookup", !.req = q, !.k = 1,
                             !.goalsPerCluster = << >>,
                             !.resp = NoResponse,
                             !.requests = gl.requests + 1]
    /\ UNCHANGED << urlHistory, clustersTable, run, lastWrite, faults, dd, cl, az >>

\* the cache lookup of one cluster (139-146); `generation' records, beside
\* the status the response reports, the status with which the goals served
\* were generated
GoalsLookup(dbFails) ==
    /\ gl.pc = "lookup"
    /\ gl.k <= Len(gl.req.clusters)
    /\ inject(IF dbFails THEN 1 ELSE 0)
    /\ LET clusterId == gl.req.clusters[gl.k]
           cachedGoals == findByClusterId(gl.table, clusterId)
       IN  gl' = IF dbFails
                 THEN [gl EXCEPT !.pc = "done", !.goalsPerCluster = << >>,
                                 !.resp = [status |-> 500]]
                 ELSE IF cachedGoals # NoRow
                 THEN [gl EXCEPT !.goalsPerCluster =
                                     Append(gl.goalsPerCluster,
                                            [id |-> clusterId,
                                             goals |-> cachedGoals.goal,
                                             status |-> "Complete",
                                             cached |-> TRUE,
                                             generation |-> cachedGoals.generation]),
                                 !.k = gl.k + 1]
                 ELSE [gl EXCEPT !.pc = "generate"]
    /\ UNCHANGED << urlHistory, clustersTable, run, lastWrite, dd, cl, az >>

\* generation and store of the goals of one cluster (149-162)
GoalsGenerate(outcome, dbFails) ==
    /\ gl.pc = "generate"
    /\ inject((IF outcome = "fail" THEN 1 ELSE 0) + (IF dbFails THEN 1 ELSE 0))
    /\ LET clusterId == gl.req.clusters[gl.k]
           clusterWithGoals == generateGoalsForCluster(clusterId, outcome)
       IN  gl' = IF dbFails
                 THEN [gl EXCEPT !.pc = "done", !.goalsPerCluster = << >>,
                                 !.resp = [status |-> 500]]
                 ELSE [gl EXCEPT !.table =
                                     Append(gl.table,
                                            [clusterId |-> clusterId,
                                             goal |-> clusterWithGoals.goals,
                                             generation |-> clusterWithGoals.status]),
                                 !.goalsPerCluster =
                                     Append(gl.goalsPerCluster,
                                            [id |-> clusterId,
                                             goals |-> clusterWithGoals.goals,
                                             status |-> clusterWithGoals.status,
                                             cached |-> FALSE,
                                             generation |-> clusterWithGoals.status]),
                                 !.k = gl.k + 1,
                                 !.pc = "lookup"]
    /\ UNCHANGED << urlHistory, clustersTable, run, lastWrite, dd, cl, az >>

\* the response (166-169)
GoalsRespond ==
    /\ gl.pc = "lookup"
    /\ gl.k > Len(gl.req.clusters)
    /\ gl' = [gl EXCEPT !.pc = "done", !.resp = [status |-> 200]]
    /\ UNCHANGED << urlHistory, clustersTable, run, lastWrite, faults, dd, cl, az >>

GoalsInit ==
    /\ urlHistory = [u \in Urls |-> NoRow]
    /\ clustersTable = << >>
    /\ run = [r \in Runs |-> IdleRun]
    /\ lastWrite = NoWrite
    /\ faults = 0
    /\ dd = IdleDedup
    /\ cl = IdleClusters
    /\ az = IdleSummary
    /\ gl = IdleGoals

GoalsNext ==
    \/ \E q \in GoalRequests : GoalsReceive(q)
    \/ \E f \in BOOLEAN : GoalsLookup(f)
    \/ \E o \in GoalOutcomes, f \in BOOLEAN : GoalsGenerate(o, f)
    \/ GoalsRespond

GoalsSpec == GoalsInit /\ [][GoalsNext]_vars

(***************************************************************************)
(* Properties                                                              *)
(***************************************************************************)
Done(r) == run[r].pc = "done"
Succeeded(r) == Done(r) /\ run[r].resp.status = 200
ServedFromCache(r) == Succeeded(r) /\ run[r].resp.cached
Computed(r) == Succeeded(r) /\ ~ run[r].resp.cached

AllStages == << "Deduplicator", "Description", "Embedding", "Clusterer", "Summarizer" >>

\* C1: a request answered from the result cache is given the entry that a
\* request with the same fetchHistory, maxItems, urls (url and title of
\* every entry) and baseUrl stored; different inputs never share an entry.
C1_HitOnlyForSameInput ==
    \A r \in Runs : ServedFromCache(r) => run[r].resp.storedFor = run[r].req

\* C2: when generateDescriptiveRepresentations has returned, its output has
\* the length of its input and position i holds input item i.
C2_DescriptionOneToOne ==
    \A r \in Runs :
        run[r].pc = "embLookup" =>
            /\ Len(run[r].enhanced) = Len(run[r].items)
            /\ \A i \in 1..Len(run[r].items) :
                   run[r].enhanced[i].url = run[r].items[i].url

\* number of points createClusters gave cluster id
clusterSize(id) == Cardinality({ i \in 1..Len(cl.embs) : cl.cluster[i] = id })

usedClusterIds == { cl.cluster[i] : i \in 1..Len(cl.embs) } \ {-1}

\* C3 as claimed: for every input, epsilon and minPoints, every cluster id
\* >= 0 of the output is held by at least minPoints points and by more
\* than one point.
C3_EveryClusterHasMinPoints ==
    cl.phase = "done" =>
        \A id \in usedClusterIds : clusterSize(id) >= cl.minPoints /\ clusterSize(id) > 1

\* C3 as amended: the same for minPoints 1 or 2 (clusterUrls passes 2).
C3_ClusterHasMinPointsUpToTwo ==
    (cl.phase = "done" /\ cl.minPoints \in {1, 2}) =>
        \A id \in usedClusterIds : clusterSize(id) >= cl.minPoints /\ clusterSize(id) > 1

\* a finished pass with minPoints = 2 that formed a cluster and left noise
C3_Witness ==
    /\ cl.phase = "done"
    /\ cl.minPoints = 2
    /\ usedClusterIds = {0}
    /\ clusterSize(0) = 3
    /\ clusterSize(-1) = 2

\* the rows of url_history hold exactly what the latest write carried
writtenRowsStored ==
    \A i \in 1..Len(lastWrite.data) :
        \/ \E j \in (i + 1)..Len(lastWrite.data) : lastWrite.data[j].url = lastWrite.data[i].url
        \/ urlHistory[lastWrite.data[i].url] = urlHistoryRow(lastWrite.data[i])

\* C4: a write to url_history for a url that already has a row succeeds and
\* overwrites title, description and embedding, for db.urlHistory.create as
\* for db.urlHistory.batchCreate (the store itself being available).
C4_WritesAreUpserts ==
    (lastWrite.op # "none" /\ lastWrite.existed /\ ~ lastWrite.dbFails) =>
        lastWrite.ok /\ writtenRowsStored

\* C5: a failing store operation is absorbed: every request that names
\* something to cluster gets a well-formed result, never an error.
C5_StoreFailureAbsorbed ==
    \A r \in Runs :
        (Done(r) /\ (run[r].req.fetchHistory \/ Len(run[r].req.urls) > 0)) =>
            run[r].resp.status = 200

\* C6: with nothing failing, when two requests both missed the cache for a
\* url the later create still succeeds and its values are the stored ones,
\* and the Description stage of neither request returns more or fewer
\* items than it was given.
C6_CollidingWritesBothSucceed ==
    faults = 0 =>
        /\ (lastWrite.op = "create" /\ lastWrite.existed) =>
               lastWrite.ok /\ writtenRowsStored
        /\ \A r \in Runs :
               run[r].pc = "embLookup" => Len(run[r].enhanced) = Len(run[r].items)

\* C7: of two successful requests with the same input, served one after
\* the other, the second returns the clusters of the first and makes no
\* text-generation and no embedding call.
C7_SecondRunIdempotent ==
    \A r1, r2 \in Runs :
        ( /\ r1 \in run[r2].after
          /\ Succeeded(r1) /\ Succeeded(r2)
          /\ run[r1].req = run[r2].req ) =>
            /\ run[r2].resp.clusters = run[r1].resp.clusters
            /\ run[r2].resp.cached
            /\ run[r2].textCalls = 0 /\ run[r2].embedCalls = 0

\* the first request computed a non-empty result, the second repeated it
C7_Witness ==
    /\ Computed(1) /\ Succeeded(2)
    /\ 1 \in run[2].after
    /\ run[1].req = run[2].req
    /\ run[1].textCalls > 0 /\ run[1].embedCalls > 0
    /\ Len(run[1].resp.clusters) > 0

\* C8: a hit returns the clusters stored under the hash of the input with
\* cached = true and runs no stage; a miss runs the five stages in order,
\* stores under the hash of the input the clusters it returns, and says
\* cached = false.
C8_HitSkipsMissRunsAndStores ==
    \A r \in Runs :
        /\ ServedFromCache(r) =>
               /\ run[r].stages = << >>
               /\ run[r].textCalls = 0 /\ run[r].embedCalls = 0
               /\ \E i \in 1..Len(clustersTable) :
                      /\ clustersTable[i].inputHash = inputHashOf(r)
                      /\ clustersTable[i].clusterResult = run[r].resp.clusters
        /\ Computed(r) =>
               /\ run[r].stages = AllStages
               /\ \E i \in 1..Len(clustersTable) :
                      /\ clustersTable[i].storedBy = r
                      /\ clustersTable[i].inputHash = inputHashOf(r)
                      /\ clustersTable[i].clusterResult = run[r].resp.clusters

\* one request ran the stages and stored a cluster of three pages, the
\* other was served that entry
C8_Witness ==
    /\ Computed(1) /\ run[1].stages = AllStages
    /\ Len(run[1].resp.clusters) = 1 /\ run[1].resp.clusters[1].count = 3
    /\ ServedFromCache(2) /\ run[2].resp.clusters = run[1].resp.clusters
    /\ Len(clustersTable) = 1

\* C9: at most one row of Clusters per input hash.
C9_OneEntryPerHash ==
    \A i, j \in 1..Len(clustersTable) :
        i # j => clustersTable[i].inputHash # clustersTable[j].inputHash

\* positions of the input that hold the first occurrence of their url
firstOccurrences(arr) ==
    { i \in 1..Len(arr) : \A j \in 1..(i - 1) : arr[j].url # arr[i].url }

\* C10: the output of the Deduplicator is the input restricted to the first
\* occurrence of every url, in input order; no url appears twice.
C10_DedupKeepsFirstOccurrences ==
    dd.done =>
        /\ dd.output = SelectIdx(dd.input, firstOccurrences(dd.input), 1)
        /\ \A i, j \in 1..Len(dd.output) : i # j => dd.output[i].url # dd.output[j].url
        /\ { dd.output[i].url : i \in 1..Len(dd.output) }
               = { dd.input[i].url : i \in 1..Len(dd.input) }

\* an input with a repeated url under another title, deduplicated
C10_Witness ==
    /\ dd.done
    /\ Len(dd.output) = 2
    /\ Len(dd.input) = 4
    /\ \E i, j \in 1..Len(dd.input) :
           /\ i < j
           /\ dd.input[i].url = dd.input[j].url
           /\ dd.input[i].title # dd.input[j].title

\* a core point of the running pass: at least minPoints other points within epsilon
isCore(i) == Len(findNeighbors(cl.embs, i, cl.epsilon)) >= cl.minPoints

C12_AssignedOnce ==
    [][ cl.phase \in {"main", "expand"} =>
          /\ \A i \in 1..Len(cl.embs) :
                 cl.cluster[i] >= 0 => cl'.cluster[i] = cl.cluster[i]
          /\ (cl.phase = "main" /\ cl'.phase = "expand") =>
                 cl.cluster[cl'.seed] = -1 ]_vars

\* a finished pass with a border point that lies within epsilon of a core
\* point of a later cluster and kept the id of the earlier one
C12_Witness ==
    /\ cl.phase = "done"
    /\ \E i, j \in 1..Len(cl.embs) :
           /\ cl.cluster[i] >= 0
           /\ cl.cluster[j] > cl.cluster[i]
           /\ isCore(j)
           /\ i \in Range(findNeighbors(cl.embs, j, cl.epsilon))

\* the three near-identical pages of the scenario
ScenarioNear == { << 0, 0, 0 >>, << 0, 0, 1 >>, << 0, 1, 0 >> }

\* C13: when createClusters has finished, two core points within epsilon of
\* each other have the same cluster id >= 0, in every input order; with
\* the epsilon and minPoints of the pipeline, three mutually close pages
\* and two pages far from everything give cluster 0 with the three pages
\* and two noise points.
C13_CorePointsShareCluster ==
    cl.phase = "done" =>
        /\ \A i, j \in 1..Len(cl.embs) :
               ( /\ i # j
                 /\ isCore(i) /\ isCore(j)
                 /\ j \in Range(findNeighbors(cl.embs, i, cl.epsilon)) ) =>
                   cl.cluster[i] >= 0 /\ cl.cluster[i] = cl.cluster[j]
        /\ ( /\ cl.embs \in ScenarioOrders
             /\ cl.epsilon = PipelineEpsilon
             /\ cl.minPoints = PipelineMinPoints ) =>
               \A i \in 1..Len(cl.embs) :
                   cl.cluster[i] = IF cl.embs[i] \in ScenarioNear THEN 0 ELSE -1

\* the scenario with a far page first and a near page last
C13_Witness ==
    /\ cl.phase = "done"
    /\ cl.embs \in ScenarioOrders
    /\ cl.epsilon = PipelineEpsilon /\ cl.minPoints = PipelineMinPoints
    /\ cl.embs[1] \notin ScenarioNear
    /\ cl.embs[Len(cl.embs)] \in ScenarioNear
    /\ clusterSize(0) = 3 /\ clusterSize(-1) = 2

\* urls of a sequence of items
urlSet(arr) == { arr[i].url : i \in 1..Len(arr) }

C15_TextFailureKeepsItem ==
    \A r \in Runs :
        /\ run[r].pc = "embLookup" =>
               /\ \A u \in run[r].textFailed :
                      \E k \in 1..Len(run[r].enhanced) :
                          /\ run[r].enhanced[k].url = u
                          /\ run[r].enhanced[k].description = ""
               /\ urlSet(run[r].items) \subseteq urlSet(run[r].enhanced)
               /\ run[r].textFor = urlSet(run[r].items) \ DOMAIN run[r].seenDesc
        /\ ( /\ Done(r) /\ run[r].resp.status = 500
             /\ run[r].stages = << "Deduplicator", "Description" >> ) =>
               run[r].textCalls = 0

\* the text generation of the first of three pages failed and the other
\* two were still generated
C15_Witness ==
    \E r \in Runs :
        /\ run[r].pc = "embLookup"
        /\ run[r].textFailed = {"a"}
        /\ run[r].textFor = {"a", "b", "c"}
        /\ Len(run[r].enhanced) = 3
        /\ run[r].enhanced[2].description # "" /\ run[r].enhanced[3].description # ""

\* C16: every item createEmbeddings emits has a non-empty description and a
\* non-empty embedding that is the one found in the cache or the one the
\* backend returned for it; an item whose embeddings call failed is not
\* emitted.
C16_OnlyEmbeddedItemsEmitted ==
    \A r \in Runs :
        run[r].pc \in {"embStore", "cluster"} =>
            \A k \in 1..Len(run[r].embedded) :
                LET e == run[r].embedded[k]
                IN  /\ e.description # ""
                    /\ e.embedding # << >>
                    /\ \/ e.url \in DOMAIN run[r].seenEmb /\ e.embedding = run[r].seenEmb[e.url]
                       \/ e.url \in DOMAIN run[r].gotEmb /\ e.embedding = run[r].gotEmb[e.url]
                    /\ e.url \notin run[r].embFailed

\* of three pages sent to the embedding backend the second failed and the
\* stage emitted the other two
C16_Witness ==
    \E r \in Runs :
        /\ run[r].pc = "embStore"
        /\ run[r].embFailed = {"b"}
        /\ Len(run[r].embedded) = 2
        /\ run[r].embedded[1].url = "a" /\ run[r].embedded[2].url = "c"

\* C17: when generateDescriptiveRepresentations has returned and the
\* lookup of createEmbeddings is about to run, every url whose
\* db.urlHistory.create succeeded in this request has a row.
C17_DescriptionWriteVisible ==
    \A r \in Runs :
        run[r].pc = "embLookup" =>
            \A u \in run[r].wrote : urlHistory[u] # NoRow

\* the Description stage of a request wrote three rows and returned
C17_Witness ==
    \E r \in Runs :
        /\ run[r].pc = "embLookup"
        /\ run[r].wrote = {"a", "b", "c"}
        /\ \A u \in run[r].wrote : urlHistory[u].embedding = << >>

\* C18: the second loop of createEmbeddings writes nothing to url_history;
\* the write that follows carries the whole batch, comes when no miss is
\* left to process, and whether it succeeds or fails the stage returns the
\* items it had produced.
C18_BatchFailureKeepsItems ==
    [][ \A r \in Runs :
          /\ (run[r].pc = "embGen" /\ run'[r].pc # "embGen") => urlHistory' = urlHistory
          /\ (run[r].pc = "embStore" /\ run'[r].pc # "embStore") =>
                 /\ run'[r].pc = "cluster"
                 /\ run'[r].embedded = run[r].embedded
                 /\ run[r].queue = << >>
                 /\ lastWrite'.op = "batchCreate"
                 /\ lastWrite'.data = run[r].batch ]_vars

\* a batch write of three embeddings failed and the request goes on to the
\* clusterer with the three items
C18_Witness ==
    \E r \in Runs :
        /\ run[r].pc = "cluster"
        /\ lastWrite.op = "batchCreate" /\ ~ lastWrite.ok
        /\ Len(lastWrite.data) = 3
        /\ Len(run[r].embedded) = 3
        /\ \A u \in Urls : urlHistory[u] # NoRow /\ urlHistory[u].embedding = << >>

\* C19: a request whose clusterer was handed embeddings of more than one
\* dimensionality ends in the Clusterer stage with status 500 and leaves no
\* row in Clusters.
C19_DimensionMismatchFailsRun ==
    \A r \in Runs :
        (Done(r) /\ Cardinality(run[r].dims) > 1) =>
            /\ run[r].resp.status = 500
            /\ run[r].stages = SubSeq(AllStages, 1, 4)
            /\ \A i \in 1..Len(clustersTable) : clustersTable[i].storedBy # r

\* a request failed on embeddings of lengths 1 and 3
C19_Witness ==
    \E r \in Runs :
        /\ Done(r)
        /\ run[r].dims = {1, 3}
        /\ run[r].resp.status = 500
        /\ Len(run[r].req.urls) = 3

\* positions of the input of analyzeClusters that hold cluster id
positionsOf(id) == { i \in 1..Len(az.input) : az.input[i].cluster = id }

\* C20: analyzeClusters returns one summary per cluster id of its input,
\* -1 included; the urls of a summary are the urls of the items with that
\* id in input order and count is their number; the summary of -1 is named
\* "Noise" and no completion is requested for it.
C20_OneSummaryPerClusterId ==
    az.done =>
        /\ { az.output[g].id : g \in 1..Len(az.output) } = clusterIdsOf(az.input)
        /\ Len(az.output) = Cardinality(clusterIdsOf(az.input))
        /\ az.calls = Cardinality(clusterIdsOf(az.input) \ {-1})
        /\ \A g \in 1..Len(az.output) :
               LET sm == az.output[g]
                   pos == positionsOf(sm.id)
               IN  /\ sm.count = Len(sm.urls)
                   /\ Len(sm.urls) = Cardinality(pos)
                   /\ \A i \in pos :
                          sm.urls[Cardinality({ j \in pos : j < i }) + 1] = az.input[i].url
                   /\ (sm.id = -1) => sm.name = "Noise"

\* three items, a noise item between two items of cluster 0
C20_Witness ==
    /\ az.done
    /\ Len(az.input) = 3
    /\ az.input[1].cluster = 0 /\ az.input[2].cluster = -1 /\ az.input[3].cluster = 0
    /\ az.input[1].url # az.input[3].url
    /\ Len(az.output) = 2
    /\ az.calls = 1

\* the summary analyzeClusters returned for cluster id
summaryFor(id) == az.output[CHOOSE g \in 1..Len(az.output) : az.output[g].id = id]

\* C21: a cluster whose completion failed gets name "Cluster {id}" and
\* description "Error analyzing this cluster" with its own urls and count;
\* every other cluster gets the summary of its own completion (the labels,
\* or the id-based name and the raw text when the labels are absent); and
\* analyzeClusters returns a summary for every cluster whatever the
\* completions do.
C21_SummaryFailureIsolated ==
    az.done =>
        \A id \in clusterIdsOf(az.input) \ {-1} :
            /\ \E g \in 1..Len(az.output) : az.output[g].id = id
            /\ LET sm == summaryFor(id)
               IN  /\ sm.count = Cardinality(positionsOf(id))
                   /\ Len(sm.urls) = sm.count
                   /\ \A k \in 1..Len(sm.urls) :
                          \E i \in positionsOf(id) : az.input[i].url = sm.urls[k]
                   /\ az.outcome[id] = "fail" =>
                          /\ sm.name = fallbackName(id)
                          /\ sm.description = "Error analyzing this cluster"
                   /\ az.outcome[id] = "labelled" =>
                          sm.name = "Topic" /\ sm.description = "About the topic"
                   /\ az.outcome[id] = "unlabelled" =>
                          sm.name = fallbackName(id) /\ sm.description = "raw analysis text"

\* the completion for cluster 0 failed, the one for cluster 1 was labelled
C21_Witness ==
    /\ az.done
    /\ clusterIdsOf(az.input) = {-1, 0, 1}
    /\ az.outcome[0] = "fail" /\ az.outcome[1] = "labelled"
    /\ summaryFor(0).description = "Error analyzing this cluster"
    /\ summaryFor(1).name = "Topic"

\* clusterUrls ran all its stages and createClusters was handed no item
clusteredNothing(r) ==
    /\ \E k \in 1..Len(run[r].stages) : run[r].stages[k] = "Clusterer"
    /\ run[r].dims = {}

\* C22: a run of clusterUrls that hands no item to the clusterer (the input
\* was empty, or every description or every embedding was lost) goes through
\* the Clusterer and the Summarizer without an error and returns no summary
\* at all: nothing is stored but an empty list of clusters, and the only
\* error such a request can still meet is the failure of that store.
C22_EmptyRunReturnsNoSummary ==
    \A r \in Runs :
        clusteredNothing(r) =>
            /\ run[r].pc \in {"analyze", "store", "done"}
            /\ run[r].pc = "analyze" => run[r].clustered = << >>
            /\ run[r].pc = "store" => run[r].analysis = << >>
            /\ run[r].pc \in {"store", "done"} => run[r].stages = AllStages
            /\ Succeeded(r) => run[r].resp.clusters = << >>

\* the history could not be read: clusterUrls ran on an empty sequence and
\* the caller got zero clusters with status 200
C22_Witness ==
    \E r \in Runs :
        /\ Computed(r) /\ clusteredNothing(r)
        /\ run[r].req.fetchHistory
        /\ run[r].stages = AllStages
        /\ run[r].textCalls = 0 /\ run[r].embedCalls = 0
        /\ run[r].resp.clusters = << >>

\* C23: a request that was received is eventually answered, with a result
\* or an error, even when a chat completion or an embeddings call never
\* answers.
C23_RunEventuallyReturns == (run[1].pc # "idle") ~> Done(1)

\* the set of indices findNeighbors(pointIndex) returns
neighborSet(i) == Range(findNeighbors(cl.embs, i, cl.epsilon))

\* C24: in a pass that ran to its end, where every point's neighbours were
\* asked for, findNeighbors(i) holds exactly the points j # i at a distance
\* of at most epsilon, each once: a point at exactly epsilon is in, a
\* farther one is out, i itself is never in, and j is a neighbour of i
\* exactly when i is a neighbour of j.
C24_NeighborsExactlyWithinEpsilon ==
    cl.phase = "done" =>
        \A i \in 1..Len(cl.embs) :
            LET Ni == neighborSet(i)
            IN  /\ i \notin Ni
                /\ Len(findNeighbors(cl.embs, i, cl.epsilon)) = Cardinality(Ni)
                /\ \A j \in 1..Len(cl.embs) \ {i} :
                       /\ j \in Ni <=>
                              euclideanDistanceSq(cl.embs[i], cl.embs[j])
                                  <= cl.epsilon * cl.epsilon
                       /\ j \in Ni => i \in neighborSet(j)

\* a finished pass over points of which two lie at exactly epsilon from each
\* other (neighbours) and two lie farther apart (not neighbours)
C24_Witness ==
    /\ cl.phase = "done"
    /\ \E i, j, k \in 1..Len(cl.embs) :
           /\ euclideanDistanceSq(cl.embs[i], cl.embs[j]) = cl.epsilon * cl.epsilon
           /\ j \in neighborSet(i) /\ i \in neighborSet(j)
           /\ euclideanDistanceSq(cl.embs[i], cl.embs[k]) > cl.epsilon * cl.epsilon
           /\ k \notin neighborSet(i)

\* the items createEmbeddings has emitted so far in run r
emitted(r) == IF run[r].pc \in {"embGen", "embStore", "cluster"} THEN run[r].embedded ELSE << >>

\* C25: every item createEmbeddings emits carries the embedding of the
\* description it holds in this run: embed(description), or the vector the
\* backend answered with when it answered with one of another length.
C25_EmittedEmbeddingOfOwnDescription ==
    \A r \in Runs :
        \A k \in 1..Len(emitted(r)) :
            emitted(r)[k].embedding \in {embed(emitted(r)[k].description), OddVector}

\* C26: every record of url_history has an empty embedding or the
\* embedding the backend returned for that record's own description:
\* embed(description), or the vector of another length the backend may
\* answer with.
C26_StoredEmbeddingMatchesDescription ==
    \A u \in Urls :
        urlHistory[u] # NoRow =>
            urlHistory[u].embedding \in
                { << >>, embed(urlHistory[u].descriptive_representation), OddVector }

\* two runs wrote the record of the same url with different descriptions:
\* the later batch write replaced a record that already had an embedding
C26_Witness ==
    /\ lastWrite.op = "batchCreate" /\ lastWrite.ok /\ lastWrite.existed
    /\ Len(lastWrite.data) = 1
    /\ urlHistory["a"] # NoRow
    /\ urlHistory["a"].descriptive_representation = "d2"
    /\ urlHistory["a"].embedding = embed("d2")
    /\ \E r \in Runs : \E k \in 1..Len(emitted(r)) :
           emitted(r)[k].url = "a" /\ emitted(r)[k].description = "d1"

\* the result of request r holds a fallback summary
degraded(r) ==
    \E k \in 1..Len(run[r].resp.clusters) :
        run[r].resp.clusters[k].description = "Error analyzing this cluster"

\* C27: once a run whose summaries are degraded has stored its result and
\* answered, every request with the same body that arrives afterwards and
\* is answered with status 200 gets that same degraded result, with
\* cached = true and without a backend call.
C27_DegradedResultServedAgain ==
    \A r1, r2 \in Replays :
        ( /\ Computed(r1) /\ degraded(r1)
          /\ Succeeded(r2) /\ r1 \in run[r2].after
          /\ run[r2].req = run[r1].req )
        => /\ ServedFromCache(r2)
           /\ run[r2].resp.clusters = run[r1].resp.clusters
           /\ run[r2].textCalls = 0 /\ run[r2].embedCalls = 0

\* how often url u is listed in the summaries of an analysis
listings(analysis, u) ==
    Cardinality({ << g, k >> \in (1..Len(analysis)) \X (1..Cardinality(Urls) + 1) :
                     k <= Len(analysis[g].urls) /\ analysis[g].urls[k] = u })

RECURSIVE sumCounts(_, _)
sumCounts(analysis, g) ==
    IF g > Len(analysis) THEN 0 ELSE analysis[g].count + sumCounts(analysis, g + 1)

\* C28: in the analysis clusterUrls returns, noise included, every url is
\* listed at most once over all summaries, and the counts add up to the
\* number of items createEmbeddings returned; the same holds of the items
\* on their way from the Embedding stage to the Summarizer.
C28_SummariesPartitionEmbeddedItems ==
    \A r \in Runs :
        /\ \A i, j \in 1..Len(emitted(r)) :
               emitted(r)[i].url = emitted(r)[j].url => i = j
        /\ run[r].pc = "analyze" =>
               /\ Len(run[r].clustered) = run[r].nEmbedded
               /\ \A i, j \in 1..Len(run[r].clustered) :
                      run[r].clustered[i].url = run[r].clustered[j].url => i = j
        /\ run[r].pc = "store" =>
               /\ \A u \in Urls : listings(run[r].analysis, u) <= 1
               /\ sumCounts(run[r].analysis, 1) = run[r].nEmbedded

\* the input listed c twice and a call failed on the way; clusterUrls
\* returns c once, as noise
C28_Witness ==
    \E r \in Runs :
        /\ run[r].pc = "store" /\ run[r].req.fetchHistory /\ faults = 1
        /\ run[r].nEmbedded = 1
        /\ Len(run[r].analysis) = 1
        /\ run[r].analysis[1].id = -1
        /\ run[r].analysis[1].urls = << "c" >>

\* C29: createClusters terminates.  The neighbors list of an expansion
\* never holds a point twice and never the seed, so it has at most n - 1
\* entries; a point is visited exactly when findNeighbors was called for
\* it, which happens at most once; and the pass takes at most
\* (n + 1) + n * n loop iterations, n being the number of points.
C29_ExpansionBoundedAndQueriedOnce ==
    LET n == Len(cl.embs)
    IN  cl.phase # "off" =>
            /\ \A a, b \in 1..Len(cl.neighbors) :
                   cl.neighbors[a] = cl.neighbors[b] => a = b
            /\ cl.phase = "expand" => cl.seed \notin Range(cl.neighbors)
            /\ Len(cl.neighbors) <= (IF n = 0 THEN 0 ELSE n - 1)
            /\ \A i \in 1..n :
                   /\ cl.queries[i] <= 1
                   /\ cl.visited[i] <=> cl.queries[i] = 1
            /\ cl.steps <= (n + 1) + n * n
            /\ cl.phase = "done" => \A i \in 1..n : cl.visited[i]

\* an expansion that is over, whose list grew to all the other points by
\* recruiting points that are not neighbours of the seed
C29_Witness ==
    /\ cl.phase = "expand"
    /\ Len(cl.embs) >= 4
    /\ Len(cl.neighbors) = Len(cl.embs) - 1
    /\ cl.k > Len(cl.neighbors)
    /\ \E a \in 1..Len(cl.neighbors) :
           cl.neighbors[a] \notin Range(findNeighbors(cl.embs, cl.seed, cl.epsilon))

\* C30: an entry the cluster-goals endpoint reports with status "Complete"
\* and cached = true holds goals whose generation completed; goals of a
\* generation that failed are never served from the cache as completed.
C30_CachedCompleteWasGenerated ==
    \A k \in 1..Len(gl.goalsPerCluster) :
        (gl.goalsPerCluster[k].status = "Complete" /\ gl.goalsPerCluster[k].cached)
            => gl.goalsPerCluster[k].generation = "Complete"
====
